---- MODULE Spec2Model ----
(***************************************************************************)
(* Model of actableai/intervention/model.py: AAIInterventionEffectPredictor *)
(* (construction, fit, predict_effect and the helpers they call), and of    *)
(* the stateless functions of actableai/utils/preprocessing.py,             *)
(* actableai/tasks/autogluon.py and actableai/tasks/bayesian_regression.py, *)
(* each applied once to arguments drawn by the initial state.               *)
(*                                                                         *)
(* Conventions.                                                            *)
(*  - A Python Optional is a sequence of length 0 (None) or 1 (the value). *)
(*  - A float probability is an integer number of millionths (ProbOne is   *)
(*    1.0); a logit is rounded to the nearest integer; -inf and +inf are   *)
(*    NegInf and PosInf, below and above every finite value.               *)
(*  - Every constructed Python object carries as id the number of the call  *)
(*    (fit or predict_effect) that constructed it, so object identity can   *)
(*    be told apart from equality of contents.                             *)
(*  - heap holds the Parameters objects the get_hyperparameters functions  *)
(*    of timeseries/models/params/constant_value.py have created (an       *)
(*    object's identity is its position), lru_cache what the two functions  *)
(*    have cached, returned what their calls have returned, in call order.  *)
(*  - Line 256 of model.py lacks its closing parenthesis; the statement is  *)
(*    read as `result = result.join(pd.DataFrame(effects))`.               *)
(***************************************************************************)
EXTENDS Integers, Sequences, FiniteSets, TLC

VARIABLES cfg, causal_model, outcome_featurizer, calls, ret, args, result,
          heap, lru_cache, returned

vars == <<cfg, causal_model, outcome_featurizer, calls, ret, args, result,
          heap, lru_cache, returned>>

----------------------------------------------------------------------------
(* Bounds of the model *)

MaxRows == 3
MaxLevels == 3
MaxCats == 2
MaxCalls == 2
EncRows == 2

----------------------------------------------------------------------------
(* Python values *)

None == <<>>
Some(x) == <<x>>
IsNone(o) == o = <<>>
Val(o) == o[1]

(* no get_hyperparameters call has been made: nothing is created or cached *)
NoCache == [uni |-> None, multi |-> None]
NoParameters == heap = <<>> /\ lru_cache = NoCache /\ returned = <<>>

ProbOne == 1000000
ProbTiny == 1
ProbHalf == 500000
ProbGrid == {0, ProbTiny, ProbHalf, ProbOne - ProbTiny, ProbOne}

PosInf == 1000000000
NegInf == 0 - PosInf

LOGIT_MIN_VALUE == -10
LOGIT_MAX_VALUE == 10

Unique(vals) == {vals[i] : i \in DOMAIN vals}

RECURSIVE SortedSeq(_)
SortedSeq(S) ==
    IF S = {} THEN <<>>
    ELSE LET m == CHOOSE x \in S : \A y \in S : x <= y
         IN  <<m>> \o SortedSeq(S \ {m})

(* scipy.special.logit on the probability grid: log(p / (1 - p)) *)
logit(p) ==
    CASE p = 0 -> NegInf
      [] p = ProbTiny -> -14
      [] p = ProbHalf -> 0
      [] p = ProbOne - ProbTiny -> 14
      [] p = ProbOne -> PosInf

(* mutant: only the lower bound is applied *)
clip_lower_only(v, lower, upper) ==
    IF v < lower THEN lower ELSE v

(* pandas DataFrame.clip(lower, upper) on one cell *)
clip(v, lower, upper) ==
    IF v < lower THEN lower ELSE IF v > upper THEN upper ELSE v

(* actableai.utils.get_type_special_no_ag: the column kind of a column *)
get_type_special_no_ag(col) ==
    CASE col.dtype = "float64" -> "numeric"
      [] col.dtype = "int64" -> "integer"
      [] OTHER -> "category"

(* the num_cols test: (type_special == "numeric") | (type_special == "integer") *)
InNumCols(col) ==
    get_type_special_no_ag(col) \in {"numeric", "integer"}

(* OneHotEncoder(sparse=False, handle_unknown="ignore").fit_transform(df[[target]]) *)
OneHotCategories(col) == SortedSeq(Unique(col.vals))

OneHotFitTransform(col) ==
    LET cats == OneHotCategories(col)
    IN  [i \in DOMAIN col.vals |->
            [j \in DOMAIN cats |-> IF col.vals[i] = cats[j] THEN ProbOne ELSE 0]]

(* number of columns of a matrix given as a sequence of rows *)
NumColumns(M) == IF M = <<>> THEN 0 ELSE Len(M[1])

----------------------------------------------------------------------------
(* AAIInterventionEffectPredictor._generate_TYX *)

LogitClip(M) ==
    [i \in DOMAIN M |->
        [j \in DOMAIN M[i] |-> clip(logit(M[i][j]), LOGIT_MIN_VALUE, LOGIT_MAX_VALUE)]]

TruthyNonEmpty(common_causes) ==
    ~IsNone(common_causes) /\ Len(Val(common_causes)) > 0

(* Returns the tuple (T0, T1, Y, X) together with the value the call leaves *)
(* in self.outcome_featurizer.                                              *)
_generate_TYX(self, featurizer, df, target_proba, id) ==
    LET X == IF TruthyNonEmpty(self.common_causes)
             THEN Some(Val(self.common_causes)) ELSE None
        numeric == InNumCols(df.target)
        encoder == IF ~IsNone(target_proba)
                   THEN [id |-> id, fitted |-> FALSE, categories |-> <<>>]
                   ELSE [id |-> id, fitted |-> TRUE,
                         categories |-> OneHotCategories(df.target)]
        Y == IF numeric
             THEN [i \in DOMAIN df.target.vals |-> <<df.target.vals[i]>>]
             ELSE IF ~IsNone(target_proba)
                  THEN LogitClip(Val(target_proba))
                  ELSE LogitClip(OneHotFitTransform(df.target))
    IN  [T0 |-> df.cur, T1 |-> df.new, Y |-> Y, X |-> X,
         outcome_featurizer |-> IF numeric THEN featurizer ELSE Some(encoder)]

----------------------------------------------------------------------------
(* Nuisance model factories *)

XwCol(X) == IF IsNone(X) THEN <<>> ELSE Val(X)

_generate_model_t(self, X, T, id) ==
    LET numeric == InNumCols(T)
        problem_type == IF numeric THEN "regression" ELSE "multiclass"
    IN  [id |-> id, wrapper |-> "SKLearnTabularWrapper", label |-> "t",
         problem_type |-> problem_type,
         x_w_columns |-> XwCol(X),
         holdout_frac |-> IF problem_type = "multiclass"
                          THEN Some(<<Cardinality(Unique(T.vals)), Len(T.vals)>>)
                          ELSE None]

(* Y.columns: the encoded outcome columns, named by their position *)
YColumns(Y) == [j \in 1..NumColumns(Y) |-> j]

(* mutant: the arity test of line 111 is inverted *)
_generate_model_y_inverted(self, X, Y, id) ==
    IF NumColumns(Y) # 1
    THEN [id |-> id, wrapper |-> "SKLearnTabularWrapper", labels |-> <<"y">>,
          problem_types |-> <<"regression">>, x_w_columns |-> XwCol(X)]
    ELSE [id |-> id, wrapper |-> "SKLearnMultilabelWrapper",
          labels |-> YColumns(Y),
          problem_types |-> [j \in 1..NumColumns(Y) |-> "regression"],
          x_w_columns |-> XwCol(X)]

_generate_model_y(self, X, Y, id) ==
    IF NumColumns(Y) = 1
    THEN [id |-> id, wrapper |-> "SKLearnTabularWrapper", labels |-> <<"y">>,
          problem_types |-> <<"regression">>, x_w_columns |-> XwCol(X)]
    ELSE [id |-> id, wrapper |-> "SKLearnMultilabelWrapper",
          labels |-> YColumns(Y),
          problem_types |-> [j \in 1..NumColumns(Y) |-> "regression"],
          x_w_columns |-> XwCol(X)]

_generate_model_final(self, T, Y, id) ==
    IF NumColumns(Y) # 1
    THEN [id |-> id, wrapper |-> "SKLearnTabularWrapper",
          labels |-> <<"y_res">>, problem_types |-> <<"regression">>]
    ELSE [id |-> id, wrapper |-> "SKLearnMultilabelWrapper",
          labels |-> YColumns(Y),
          problem_types |-> [j \in 1..NumColumns(Y) |-> "regression"]]

----------------------------------------------------------------------------
(* AAIInterventionEffectPredictor._generate_dml_model *)

(* mutant: the cate_alpha test of line 182 is left out *)
_generate_dml_model_no_alpha(self, model_t, model_y, model_final, X, T, id) ==
    LET T_type == get_type_special_no_ag(T)
    IN  IF \/ TruthyNonEmpty(self.common_causes)
           \/ (T_type = "categorical" /\ Cardinality(Unique(T.vals)) > 2)
        THEN [id |-> id, kind |-> "LinearDML",
              model_t |-> model_t, model_y |-> model_y, model_final |-> None,
              featurizer |-> IF IsNone(self.common_causes)
                                \/ Len(Val(self.common_causes)) = 0
                             THEN None ELSE Some("DMLFeaturizer"),
              cv |-> self.causal_cv,
              discrete_treatment |-> (T_type = "categorical"),
              fitted |-> FALSE]
        ELSE [id |-> id, kind |-> "NonParamDML",
              model_t |-> model_t, model_y |-> model_y,
              model_final |-> Some(model_final),
              featurizer |-> IF IsNone(X) THEN None ELSE Some("DMLFeaturizer"),
              cv |-> self.causal_cv,
              discrete_treatment |-> (T_type = "categorical"),
              fitted |-> FALSE]

(* mutant: line 193 tests only `common_causes is None` *)
_generate_dml_model_featurizer(self, model_t, model_y, model_final, X, T, id) ==
    LET T_type == get_type_special_no_ag(T)
    IN  IF \/ TruthyNonEmpty(self.common_causes)
           \/ ~IsNone(self.cate_alpha)
           \/ (T_type = "categorical" /\ Cardinality(Unique(T.vals)) > 2)
        THEN [id |-> id, kind |-> "LinearDML",
              model_t |-> model_t, model_y |-> model_y, model_final |-> None,
              featurizer |-> IF IsNone(self.common_causes)
                             THEN None ELSE Some("DMLFeaturizer"),
              cv |-> self.causal_cv,
              discrete_treatment |-> (T_type = "categorical"),
              fitted |-> FALSE]
        ELSE [id |-> id, kind |-> "NonParamDML",
              model_t |-> model_t, model_y |-> model_y,
              model_final |-> Some(model_final),
              featurizer |-> IF IsNone(X) THEN None ELSE Some("DMLFeaturizer"),
              cv |-> self.causal_cv,
              discrete_treatment |-> (T_type = "categorical"),
              fitted |-> FALSE]

_generate_dml_model(self, model_t, model_y, model_final, X, T, id) ==
    LET T_type == get_type_special_no_ag(T)
    IN  IF \/ TruthyNonEmpty(self.common_causes)
           \/ ~IsNone(self.cate_alpha)
           \/ (T_type = "categorical" /\ Cardinality(Unique(T.vals)) > 2)
        THEN [id |-> id, kind |-> "LinearDML",
              model_t |-> model_t, model_y |-> model_y, model_final |-> None,
              featurizer |-> IF IsNone(self.common_causes)
                                \/ Len(Val(self.common_causes)) = 0
                             THEN None ELSE Some("DMLFeaturizer"),
              cv |-> self.causal_cv,
              discrete_treatment |-> (T_type = "categorical"),
              fitted |-> FALSE]
        ELSE [id |-> id, kind |-> "NonParamDML",
              model_t |-> model_t, model_y |-> model_y,
              model_final |-> Some(model_final),
              featurizer |-> IF IsNone(X) THEN None ELSE Some("DMLFeaturizer"),
              cv |-> self.causal_cv,
              discrete_treatment |-> (T_type = "categorical"),
              fitted |-> FALSE]

----------------------------------------------------------------------------
(* Inputs *)

DTypes == {"float64", "int64", "object"}

(* a column of n rows that takes k distinct values *)
Cyc(n, k) == [i \in 1..n |-> ((i - 1) % k) + 1]

Column(dtype, n, k) == [dtype |-> dtype, vals |-> Cyc(n, k)]

(* treatment columns: object columns of 1..MaxLevels distinct values, float *)
(* columns that are constant or have MaxLevels distinct values, and an      *)
(* integer column of MaxLevels distinct values                              *)
TreatmentColumns ==
    { Column("object", MaxRows, k) : k \in 1..MaxLevels }
        \cup { Column("float64", MaxRows, k) : k \in {1, MaxLevels} }
        \cup { Column("int64", MaxRows, MaxLevels) }

(* target columns: object columns of 1..MaxCats classes, and numeric *)
(* columns                                                            *)
TargetColumns ==
    { Column("object", MaxRows, c) : c \in 1..MaxCats }
        \cup { Column(yd, MaxRows, MaxCats) : yd \in {"float64", "int64"} }

Datasets ==
    { [target |-> y, cur |-> t, new |-> [t EXCEPT !.vals = Cyc(MaxRows, 1)]] :
         y \in TargetColumns, t \in TreatmentColumns }

NumRows(df) == Len(df.target.vals)

(* class probabilities supplied by the caller: none, or one row of two *)
(* class probabilities per row of df                                     *)
TargetProbas(df) ==
    { None, Some([i \in 1..NumRows(df) |-> <<0, ProbOne>>]) }

CommonCausesArgs == {None, Some(<<>>), Some(<<"x">>)}
CateAlphaArgs == {None, Some(5)}
CausalCvArgs == {None, Some(2)}

----------------------------------------------------------------------------
(* AAIInterventionEffectPredictor.__init__ *)

(* What the last call did: the operation, the exception it raised ("none"  *)
(* when it returned), whether self.causal_model was None when it was       *)
(* called, its arguments, whether it read the columns of df, the encoded   *)
(* outcome Y and confounders X it computed (None when it computed none),   *)
(* the decoding branch of lines 247-252 it took, and the value it returned. *)
Call(op, error, was_none, df, target_proba, df_read, Y, X, decode, out) ==
    [op |-> op, error |-> error, was_none |-> was_none, df |-> df,
     target_proba |-> target_proba, df_read |-> df_read, Y |-> Y, X |-> X,
     decode |-> decode, out |-> out]

NoCall ==
    Call("__init__", "none", TRUE, None, None, FALSE, None, None, "not_reached", None)

Init ==
    /\ \E cc \in CommonCausesArgs, alpha \in CateAlphaArgs, cv \in CausalCvArgs :
          cfg = [common_causes |-> cc,
                 causal_cv |-> IF IsNone(cv) THEN 1 ELSE Val(cv),
                 causal_cv_arg |-> cv,
                 cate_alpha |-> alpha]
    /\ causal_model = None
    /\ outcome_featurizer = None
    /\ calls = 0
    /\ ret = NoCall
    /\ args = None
    /\ result = None
    /\ NoParameters

----------------------------------------------------------------------------
(* AAIInterventionEffectPredictor.fit *)

(* mutant: a fitted predictor re-fits the estimator it already holds *)
fit_refit_previous(df, target_proba) ==
    LET id == calls + 1
        tyx == _generate_TYX(cfg, outcome_featurizer, df, target_proba, id)
        model_t == _generate_model_t(cfg, tyx.X, tyx.T0, id)
        model_y == _generate_model_y(cfg, tyx.X, tyx.Y, id)
        model_final == _generate_model_final(cfg, tyx.T0, tyx.Y, id)
        dml == _generate_dml_model(cfg, model_t, model_y, model_final,
                                   tyx.X, tyx.T0, id)
    IN  /\ calls < MaxCalls
        /\ calls' = id
        /\ outcome_featurizer' = tyx.outcome_featurizer
        /\ causal_model' = IF IsNone(causal_model)
                           THEN Some([dml EXCEPT !.fitted = TRUE])
                           ELSE causal_model
        /\ ret' = Call("fit", "none", IsNone(causal_model), Some(df), target_proba,
                       TRUE, Some(tyx.Y), Some(tyx.X), "not_reached", None)
        /\ UNCHANGED cfg

fit(df, target_proba) ==
    LET id == calls + 1
        tyx == _generate_TYX(cfg, outcome_featurizer, df, target_proba, id)
        model_t == _generate_model_t(cfg, tyx.X, tyx.T0, id)
        model_y == _generate_model_y(cfg, tyx.X, tyx.Y, id)
        model_final == _generate_model_final(cfg, tyx.T0, tyx.Y, id)
        dml == _generate_dml_model(cfg, model_t, model_y, model_final,
                                   tyx.X, tyx.T0, id)
    IN  /\ calls < MaxCalls
        /\ calls' = id
        /\ outcome_featurizer' = tyx.outcome_featurizer
        /\ causal_model' = Some([dml EXCEPT !.fitted = TRUE])
        /\ ret' = Call("fit", "none", IsNone(causal_model), Some(df), target_proba,
                       TRUE, Some(tyx.Y), Some(tyx.X), "not_reached", None)
        /\ UNCHANGED cfg

Fit ==
    /\ \E df \in Datasets :
          \E target_proba \in TargetProbas(df) : fit(df, target_proba)
    /\ UNCHANGED <<args, result, heap, lru_cache, returned>>

----------------------------------------------------------------------------
(* AAIInterventionEffectPredictor.predict_effect *)

(* names bound at module level (lines 1-21) and inside predict_effect *)
ModuleNames ==
    {"logging", "mkdtemp", "Any", "Optional", "List", "Dict", "Tuple", "Union",
     "np", "pd", "NotFittedError", "SimpleImputer", "OneHotEncoder", "logit",
     "expit", "TabularPredictor", "AutoMLPipelineFeatureGenerator", "LinearDML",
     "NonParamDML", "SKLearnMultilabelWrapper", "SKLearnTabularWrapper",
     "LOGIT_MAX_VALUE", "LOGIT_MIN_VALUE", "get_type_special_no_ag",
     "MultilabelPredictor", "DMLFeaturizer", "AAIInterventionEffectPredictor"}

PredictEffectLocals ==
    {"self", "df", "target_proba", "result", "T0", "T1", "Y", "X", "effects",
     "target_intervened", "lb", "ub"}

(* the bare names lines 240-268 evaluate; the first, in line 242, is *)
(* current_intervention_column                                       *)
PredictEffectNames ==
    {"self", "X", "df", "Y", "effects", "result", "pd", "expit", "lb", "ub",
     "current_intervention_column", "new_intervention_column", "target",
     "cate_alpha", "causal_model"}

Resolves(name) == name \in PredictEffectLocals \cup ModuleNames

(* lines 246-270 for a call whose names all resolve: the decoding branch *)
(* and the returned value, target_intervened                             *)
PredictEffectReturn(df, target_proba, tyx) ==
    Call("predict_effect", "none", FALSE, Some(df), target_proba, TRUE,
         Some(tyx.Y), Some(tyx.X),
         IF IsNone(tyx.outcome_featurizer) THEN "add" ELSE "expit_inverse_transform",
         Some([value |-> "target_intervened", columns |-> {},
               rows |-> Len(tyx.Y)]))

(* mutant: _generate_TYX runs before the causal_model guard *)
predict_effect_tyx_first(df, target_proba) ==
    LET tyx == _generate_TYX(cfg, outcome_featurizer, df, target_proba, calls + 1)
    IN  /\ calls < MaxCalls
        /\ calls' = calls + 1
        /\ outcome_featurizer' = tyx.outcome_featurizer
        /\ ret' = IF IsNone(causal_model)
                  THEN Call("predict_effect", "NotFittedError", TRUE, Some(df),
                            target_proba, TRUE, Some(tyx.Y), Some(tyx.X),
                            "not_reached", None)
                  ELSE Call("predict_effect", "NameError", FALSE, Some(df),
                            target_proba, TRUE, Some(tyx.Y), Some(tyx.X),
                            "not_reached", None)
        /\ UNCHANGED <<cfg, causal_model>>

(* lines 237-238: the guard; line 239: _generate_TYX; lines 240-244: the   *)
(* arguments of effect() are evaluated, and a name that is bound nowhere   *)
(* raises NameError there, before anything is decoded or returned.         *)
predict_effect(df, target_proba) ==
    /\ calls < MaxCalls
    /\ calls' = calls + 1
    /\ IF IsNone(causal_model)
       THEN /\ ret' = Call("predict_effect", "NotFittedError", TRUE, Some(df),
                           target_proba, FALSE, None, None, "not_reached", None)
            /\ UNCHANGED <<causal_model, outcome_featurizer>>
       ELSE LET tyx == _generate_TYX(cfg, outcome_featurizer, df, target_proba,
                                     calls + 1)
            IN  /\ outcome_featurizer' = tyx.outcome_featurizer
                /\ ret' = IF \E name \in PredictEffectNames : ~Resolves(name)
                          THEN Call("predict_effect", "NameError", FALSE, Some(df),
                                    target_proba, TRUE, Some(tyx.Y), Some(tyx.X),
                                    "not_reached", None)
                          ELSE PredictEffectReturn(df, target_proba, tyx)
                /\ UNCHANGED causal_model
    /\ UNCHANGED cfg

PredictEffect ==
    /\ \E df \in Datasets :
          \E target_proba \in TargetProbas(df) : predict_effect(df, target_proba)
    /\ UNCHANGED <<args, result, heap, lru_cache, returned>>

----------------------------------------------------------------------------

Next == Fit \/ PredictEffect

Spec == Init /\ [][Next]_vars

----------------------------------------------------------------------------
(* _generate_TYX on its own, over arbitrary target columns and class       *)
(* probabilities of the grid                                               *)

EncTargetColumns ==
    UNION { { [dtype |-> yd, vals |-> v] : yd \in DTypes, v \in [1..n -> 1..MaxCats] } :
              n \in 1..EncRows }

EncDatasets ==
    { [target |-> y,
       cur |-> Column("float64", Len(y.vals), 1),
       new |-> Column("float64", Len(y.vals), 1)] : y \in EncTargetColumns }

(* a probability matrix of n rows: row i is the chosen row rotated by i - 1 *)
Rotated(row, n) ==
    [i \in 1..n |-> [j \in DOMAIN row |-> row[((i + j - 2) % Len(row)) + 1]]]

EncTargetProbas(df) ==
    {None} \cup
    UNION { { Some(Rotated(row, NumRows(df))) : row \in [1..k -> ProbGrid] } :
              k \in 1..MaxCats }

GenerateTYX ==
    \E df \in EncDatasets :
        \E target_proba \in EncTargetProbas(df) :
            LET tyx == _generate_TYX(cfg, outcome_featurizer, df, target_proba,
                                     calls + 1)
            IN  /\ calls < 1
                /\ calls' = calls + 1
                /\ outcome_featurizer' = tyx.outcome_featurizer
                /\ ret' = Call("_generate_TYX", "none", IsNone(causal_model),
                               Some(df), target_proba, TRUE, Some(tyx.Y),
                               Some(tyx.X), "not_reached", Some(tyx))
                /\ UNCHANGED <<cfg, causal_model, args, result,
                               heap, lru_cache, returned>>

NextEncode == GenerateTYX

(* _generate_TYX reads common_causes only: the predictors it is applied to *)
(* are those constructed without cate_alpha and causal_cv                  *)
InitEncode ==
    /\ Init
    /\ IsNone(cfg.cate_alpha)
    /\ IsNone(cfg.causal_cv_arg)

SpecEncode == InitEncode /\ [][NextEncode]_vars

----------------------------------------------------------------------------
(* AAIBayesianRegressionTask.run                                           *)
(*                                                                         *)
(* The rows of df carry the labels 0..n-1 of a default index.  The target  *)
(* column is the sequence of its notna() flags.  The outcome of the data   *)
(* validator and the rows train_test_split draws are inputs of the call.   *)

BayesRows == 3
MaxPriors == 2

PriorArgs ==
    { [column |-> "x", control |-> c, degree |-> d, value |-> 1] :
        c \in {None, Some("a")}, d \in {1, 2} }

PriorLists ==
    {None} \cup { Some(p) : p \in UNION { [1..k -> PriorArgs] : k \in 0..MaxPriors } }

RunArgs ==
    { [target_notna |-> y, priors |-> p, validation_split |-> v, critical |-> c] :
        y \in UNION { [1..n -> BOOLEAN] : n \in 1..BayesRows },
        p \in PriorLists,
        v \in {0, 20},
        c \in BOOLEAN }

(* mutant: line 121 rejects the priors without control *)
PriorRejected_no_control(k) == IsNone(k.control) /\ k.degree # 1

PriorRejected(k) == ~IsNone(k.control) /\ k.degree # 1

PriorKey(k) ==
    IF IsNone(k.control)
    THEN IF k.degree = 1 THEN <<k.column>> ELSE <<k.column, k.degree>>
    ELSE <<k.column, Val(k.control), k.degree>>

(* the loop of lines 120-134 from prior i on *)
RECURSIVE PriorsLoop(_, _, _)
PriorsLoop(priors, i, priors_values) ==
    IF i > Len(priors)
    THEN [raised |-> FALSE, priors_values |-> priors_values]
    ELSE IF PriorRejected(priors[i])
         THEN [raised |-> TRUE, priors_values |-> priors_values]
         ELSE PriorsLoop(priors, i + 1,
                         priors_values \cup {<<PriorKey(priors[i]), priors[i].value>>})

NotNa(y) == { i \in 0..(Len(y) - 1) : y[i + 1] }
IsNa(y) == { i \in 0..(Len(y) - 1) : ~y[i + 1] }

(* sklearn: n_test = ceil(test_size * n), n_train = n - n_test; an empty   *)
(* train set is a ValueError (no split)                                    *)
train_test_split(X, validation_split) ==
    LET n_test == (Cardinality(X) * validation_split + 99) \div 100
    IN  IF Cardinality(X) - n_test <= 0
        THEN {}
        ELSE { [train |-> X \ test, test |-> test] :
                 test \in { t \in SUBSET X : Cardinality(t) = n_test } }

(* pd.concat([df.loc[index], pd.DataFrame(<k predicted rows>)], axis=1):   *)
(* the rows of the two frames are aligned on their labels, index on the    *)
(* left and 0..k-1 on the right, and the table has the union of the labels *)
ConcatAxis1(index, k) ==
    [i \in index \cup 0..(k - 1) |->
        [row |-> IF i \in index THEN Some(i) ELSE None,
         predicted |-> i \in 0..(k - 1)]]

RunResult(status, error, work, priors_values, X, X_predict, X_train, X_test, data) ==
    [status |-> status, error |-> error, work |-> work,
     priors_values |-> priors_values, X |-> X, X_predict |-> X_predict,
     X_train |-> X_train, X_test |-> X_test, data |-> data]

NoData == [validation_table |-> None, prediction_table |-> None]

run(a) ==
    LET priors == IF IsNone(a.priors) THEN <<>> ELSE Val(a.priors)
        loop == PriorsLoop(priors, 1, {})
        X == NotNa(a.target_notna)
        X_predict == IsNa(a.target_notna)
        splits == IF a.validation_split > 0
                  THEN train_test_split(X, a.validation_split)
                  ELSE {[train |-> X, test |-> X]}
        expand == <<"expand_polynomial_categorical">>
        split == IF a.validation_split > 0 THEN <<"train_test_split">> ELSE <<>>
    IN  IF a.critical
        THEN result' = Some(RunResult("FAILURE", "none", <<>>, {}, {}, {}, {}, {},
                                      NoData))
        ELSE IF loop.raised
        THEN result' = Some(RunResult("raised", "ValueError", <<>>,
                                      loop.priors_values, {}, {}, {}, {}, NoData))
        ELSE IF splits = {}
        THEN result' = Some(RunResult("raised", "ValueError", expand \o split,
                                      loop.priors_values, X, X_predict, {}, {},
                                      NoData))
        ELSE IF X = {}
        THEN result' = Some(RunResult("raised", "TuneError",
                                      expand \o split \o <<"tune.run">>,
                                      loop.priors_values, X, X_predict, {}, {},
                                      NoData))
        ELSE \E s \in splits :
                result' = Some(RunResult(
                    "SUCCESS", "none",
                    expand \o split \o <<"tune.run", "BayesianRidge.fit">>
                        \o (IF X_predict # {} THEN <<"predict">> ELSE <<>>),
                    loop.priors_values, X, X_predict, s.train, s.test,
                    [validation_table |->
                        IF a.validation_split > 0
                        THEN Some(ConcatAxis1(s.test, Cardinality(s.test)))
                        ELSE None,
                     prediction_table |->
                        IF Cardinality(X_predict) > 0
                        THEN Some(ConcatAxis1(X_predict, Cardinality(X_predict)))
                        ELSE None]))

NoPredictor ==
    /\ cfg = None
    /\ causal_model = None
    /\ outcome_featurizer = None
    /\ calls = 0
    /\ ret = NoCall

InitBayes ==
    /\ NoPredictor
    /\ args \in RunArgs
    /\ result = None
    /\ NoParameters

Run ==
    /\ IsNone(result)
    /\ run(args)
    /\ UNCHANGED <<cfg, causal_model, outcome_featurizer, calls, ret, args,
                   heap, lru_cache, returned>>

NextBayes == Run

SpecBayes == InitBayes /\ [][NextBayes]_vars

----------------------------------------------------------------------------
(* impute_df (utils/preprocessing.py) and preprocess_data (model.py)       *)
(*                                                                         *)
(* A frame is a sequence of columns, a cell an Optional value (None is the *)
(* missing value NaN).  A numeric value is an integer number of halves, so *)
(* that the median of two values is a value.                               *)

ImputeRows == 3

NumCells == {None, Some(2), Some(4)}
CatOrder == <<"a", "b">>
CatCells == {None} \cup { Some(CatOrder[j]) : j \in DOMAIN CatOrder }

Frames ==
    { <<[dtype |-> "float64", vals |-> n], [dtype |-> "object", vals |-> c]>> :
        n \in [1..ImputeRows -> NumCells], c \in [1..ImputeRows -> CatCells] }

NumericImputerArgs == {None, Some([strategy |-> "median", fill_value |-> None])}
CategoricalImputerArgs ==
    {None, Some([strategy |-> "most_frequent", fill_value |-> None])}

Present(vals) == { i \in DOMAIN vals : ~IsNone(vals[i]) }
CountOf(vals, v) == Cardinality({ i \in Present(vals) : Val(vals[i]) = v })

(* nan when every cell is missing *)
median(vals) ==
    IF Present(vals) = {}
    THEN None
    ELSE LET m == Cardinality(Present(vals))
             Kth(k) ==
                 CHOOSE v \in { Val(vals[i]) : i \in Present(vals) } :
                     /\ Cardinality({ i \in Present(vals) : Val(vals[i]) <= v }) >= k
                     /\ Cardinality({ i \in Present(vals) : Val(vals[i]) < v }) < k
         IN  Some(IF m % 2 = 1
                  THEN Kth((m + 1) \div 2)
                  ELSE (Kth(m \div 2) + Kth(m \div 2 + 1)) \div 2)

(* the smallest of the most frequent values; nan when every cell is missing *)
most_frequent(vals) ==
    IF Present(vals) = {}
    THEN None
    ELSE LET Most(j) ==
                 \A k \in DOMAIN CatOrder :
                     /\ CountOf(vals, CatOrder[k]) <= CountOf(vals, CatOrder[j])
                     /\ k < j => CountOf(vals, CatOrder[k]) < CountOf(vals, CatOrder[j])
         IN  Some(CatOrder[CHOOSE j \in DOMAIN CatOrder : Most(j)])

(* SimpleImputer.statistics_ of one column *)
statistics_(imputer, vals) ==
    CASE imputer.strategy = "constant" -> imputer.fill_value
      [] imputer.strategy = "median" -> median(vals)
      [] imputer.strategy = "most_frequent" -> most_frequent(vals)

(* SimpleImputer.fit_transform: a column whose statistic is nan is dropped *)
(* from the output, every other column has its missing cells replaced by   *)
(* its statistic                                                           *)
fit_transform(imputer, cols) ==
    LET Kept(col) == ~IsNone(statistics_(imputer, col.vals))
        kept == SelectSeq(cols, Kept)
    IN  [j \in DOMAIN kept |->
            [i \in DOMAIN kept[j].vals |->
                IF IsNone(kept[j].vals[i])
                THEN statistics_(imputer, kept[j].vals)
                ELSE kept[j].vals[i]]]

IsNumber(col) == col.dtype \in {"float64", "int64"}

(* the positions of the columns of df, in column order *)
Positions(df) == [j \in DOMAIN df |-> j]

(* df[cols] = values / df.loc[:, cols] = values: a ValueError (None here)  *)
(* unless values has one column per key                                    *)
SetColumns(df, cols, values) ==
    IF Len(values) # Len(cols)
    THEN None
    ELSE Some([j \in DOMAIN df |->
                 IF \E k \in DOMAIN cols : cols[k] = j
                 THEN [df[j] EXCEPT !.vals =
                          values[CHOOSE k \in DOMAIN cols : cols[k] = j]]
                 ELSE df[j]])

Columns(df, cols) == [k \in DOMAIN cols |-> df[cols[k]]]

(* impute_df works on df in place and returns nothing: frame is df after   *)
(* the call                                                                *)
impute_df(df, numeric_imputer, categorical_imputer) ==
    LET Number(j) == IsNumber(df[j])
        NotNumber(j) == ~IsNumber(df[j])
        numeric_cols == SelectSeq(Positions(df), Number)
        categorical_cols == SelectSeq(Positions(df), NotNumber)
        num_imp == IF IsNone(numeric_imputer)
                   THEN [strategy |-> "constant", fill_value |-> Some(0)]
                   ELSE Val(numeric_imputer)
        cat_imp == IF IsNone(categorical_imputer)
                   THEN [strategy |-> "constant", fill_value |-> Some("NA")]
                   ELSE Val(categorical_imputer)
        df1 == IF Len(numeric_cols) > 0
               THEN SetColumns(df, numeric_cols,
                               fit_transform(num_imp, Columns(df, numeric_cols)))
               ELSE Some(df)
        df2 == IF IsNone(df1) THEN None
               ELSE IF Len(categorical_cols) > 0
               THEN SetColumns(Val(df1), categorical_cols,
                               fit_transform(cat_imp, Columns(Val(df1), categorical_cols)))
               ELSE df1
    IN  IF IsNone(df1) THEN [frame |-> df, error |-> "ValueError", returned |-> None]
        ELSE IF IsNone(df2)
        THEN [frame |-> Val(df1), error |-> "ValueError", returned |-> None]
        ELSE [frame |-> Val(df2), error |-> "none", returned |-> None]

(* preprocess_data returns the imputed copy of df: frame is the returned   *)
(* frame, and df itself when the call raises                               *)
preprocess_data(df) ==
    LET Numeric(j) == InNumCols(df[j])
        Category(j) == get_type_special_no_ag(df[j]) = "category"
        num_cols == SelectSeq(Positions(df), Numeric)
        cat_cols == SelectSeq(Positions(df), Category)
        df1 == IF Len(num_cols) > 0
               THEN SetColumns(df, num_cols,
                               fit_transform([strategy |-> "median", fill_value |-> None],
                                             Columns(df, num_cols)))
               ELSE Some(df)
        df2 == IF IsNone(df1) THEN None
               ELSE IF Len(cat_cols) > 0
               THEN SetColumns(Val(df1), cat_cols,
                               fit_transform([strategy |-> "most_frequent",
                                              fill_value |-> None],
                                             Columns(Val(df1), cat_cols)))
               ELSE df1
    IN  IF IsNone(df2)
        THEN [frame |-> df, error |-> "ValueError", returned |-> None]
        ELSE [frame |-> Val(df2), error |-> "none", returned |-> df2]

InitImpute ==
    /\ NoPredictor
    /\ args \in { [df |-> df, numeric_imputer |-> ni, categorical_imputer |-> ci] :
                    df \in Frames, ni \in NumericImputerArgs,
                    ci \in CategoricalImputerArgs }
    /\ result = None
    /\ NoParameters

ImputeDf ==
    /\ IsNone(result)
    /\ result' = Some([op |-> "impute_df"] @@
                      impute_df(args.df, args.numeric_imputer, args.categorical_imputer))
    /\ UNCHANGED <<cfg, causal_model, outcome_featurizer, calls, ret, args,
                   heap, lru_cache, returned>>

PreprocessData ==
    /\ IsNone(result)
    /\ IsNone(args.numeric_imputer) /\ IsNone(args.categorical_imputer)
    /\ result' = Some([op |-> "preprocess_data"] @@ preprocess_data(args.df))
    /\ UNCHANGED <<cfg, causal_model, outcome_featurizer, calls, ret, args,
                   heap, lru_cache, returned>>

NextImpute == ImputeDf \/ PreprocessData

SpecImpute == InitImpute /\ [][NextImpute]_vars

----------------------------------------------------------------------------
(* PercentageTransformer.transform (utils/preprocessing.py)                *)
(*                                                                         *)
(* A cell is missing (NaN), a string (its sequence of characters) or a     *)
(* float (digits / 10^decimals).                                           *)

PctRows == 4

NaNCell == [kind |-> "nan", chars |-> <<>>, digits |-> 0, decimals |-> 0]
StrCell(chars) == [kind |-> "str", chars |-> chars, digits |-> 0, decimals |-> 0]
FloatCell(digits, decimals) ==
    [kind |-> "float", chars |-> <<>>, digits |-> digits, decimals |-> decimals]

DigitValue ==
    [c \in {"0", "1", "2", "3", "4", "5", "6", "7", "8", "9"} |->
        CASE c = "0" -> 0 [] c = "1" -> 1 [] c = "2" -> 2 [] c = "3" -> 3
          [] c = "4" -> 4 [] c = "5" -> 5 [] c = "6" -> 6 [] c = "7" -> 7
          [] c = "8" -> 8 [] c = "9" -> 9]
IsDigit(c) == c \in DOMAIN DigitValue
IsBlank(c) == c \in {" ", "\t"}

(* r'^[^\S\r\n]*(\d+(?:\.\d+)?)[^\S\r\n]*%[^\S\r\n]*$' as an automaton:    *)
(* 0 leading blanks, 1 integer digits, 2 after the point, 3 fraction       *)
(* digits, 4 blanks before the sign, 5 after the sign, 6 no match          *)
PatternStep(state, c) ==
    CASE state = 0 /\ IsBlank(c) -> 0
      [] state = 0 /\ IsDigit(c) -> 1
      [] state = 1 /\ IsDigit(c) -> 1
      [] state = 1 /\ c = "." -> 2
      [] state = 2 /\ IsDigit(c) -> 3
      [] state = 3 /\ IsDigit(c) -> 3
      [] state \in {1, 3, 4} /\ IsBlank(c) -> 4
      [] state \in {1, 3, 4} /\ c = "%" -> 5
      [] state = 5 /\ IsBlank(c) -> 5
      [] OTHER -> 6

RECURSIVE PatternRun(_, _, _, _, _)
PatternRun(chars, i, state, digits, decimals) ==
    IF i > Len(chars)
    THEN [matched |-> state = 5, digits |-> digits, decimals |-> decimals]
    ELSE LET next == PatternStep(state, chars[i])
         IN  PatternRun(chars, i + 1, next,
                        IF next \in {1, 3} THEN 10 * digits + DigitValue[chars[i]]
                                           ELSE digits,
                        IF next = 3 THEN decimals + 1 ELSE decimals)

(* x.str.extract(pattern)[0] followed by astype(float), for one cell *)
extract(cell) ==
    IF cell.kind # "str"
    THEN NaNCell
    ELSE LET m == PatternRun(cell.chars, 1, 0, 0, 0)
         IN  IF m.matched THEN FloatCell(m.digits, m.decimals) ELSE NaNCell

IsNaCount(x) == Cardinality({ i \in DOMAIN x : x[i].kind = "nan" })

(* mutant: the column is kept as it is only when more than half of the     *)
(* extracted cells are NaN                                                 *)
parsed_rate_check_strict(x, min_percent) ==
    100 * IsNaCount(x) > min_percent * Len(x)

(* lambda x, min: x.isna().sum() >= min * len(x), min in hundredths *)
parsed_rate_check(x, min_percent) ==
    100 * IsNaCount(x) >= min_percent * Len(x)

transform(X) ==
    LET extracted == [j \in DOMAIN X |-> [i \in DOMAIN X[j] |-> extract(X[j][i])]]
        rate_checker == [j \in DOMAIN X |-> parsed_rate_check(extracted[j], 50)]
    IN  [j \in DOMAIN X |-> IF ~rate_checker[j] THEN extracted[j] ELSE X[j]]

PctCells ==
    { NaNCell,
      StrCell(<<"5", "%">>),
      StrCell(<<" ", "2", ".", "5", " ", "%">>),
      StrCell(<<"a", "b", "c">>),
      StrCell(<<"5">>) }

PctFrames == UNION { { <<x>> : x \in [1..n -> PctCells] } : n \in 1..PctRows }

InitPercent ==
    /\ NoPredictor
    /\ args \in { [X |-> X] : X \in PctFrames }
    /\ result = None
    /\ NoParameters

Transform ==
    /\ IsNone(result)
    /\ result' = Some([X |-> transform(args.X)])
    /\ UNCHANGED <<cfg, causal_model, outcome_featurizer, calls, ret, args,
                   heap, lru_cache, returned>>

NextPercent == Transform

SpecPercent == InitPercent /\ [][NextPercent]_vars

----------------------------------------------------------------------------
(* AAIAutogluonTask.get_available_models (tasks/autogluon.py)              *)
(*                                                                         *)
(* model_params_dict, the registry, is an ordered dict from a model to its *)
(* parameters class: a sequence of entries without repeated model.         *)

MaxModels == 2

ModelNames == {"gbm", "ag_automm", "tabpfn"}
ProblemTypes == {"regression", "quantile"}

ModelParamsClasses ==
    { [supported_problem_types |-> t, explain_samples_supported |-> e,
       gpu_required |-> g] :
        t \in {{"regression"}, ProblemTypes}, e \in BOOLEAN, g \in BOOLEAN }

Registries ==
    UNION { { r \in [1..n -> [model : ModelNames, params : ModelParamsClasses]] :
                \A i, j \in 1..n : r[i].model = r[j].model => i = j } :
            n \in 0..MaxModels }

AvailableModelsArgs ==
    { [model_params_dict |-> r, problem_type |-> pt, explain_samples |-> ex,
       gpu |-> g, ag_automm_enabled |-> am, tabpfn_enabled |-> tp] :
        r \in Registries, pt \in ProblemTypes, ex \in BOOLEAN, g \in BOOLEAN,
        am \in BOOLEAN, tp \in BOOLEAN }

(* mutant: line 56 skips the GPU models when the GPU is available *)
Skipped_gpu_inverted(model, model_params_class, a) ==
    \/ a.problem_type \notin model_params_class.supported_problem_types
    \/ (a.explain_samples /\ ~model_params_class.explain_samples_supported)
    \/ (a.gpu /\ model_params_class.gpu_required)
    \/ (model = "ag_automm" /\ ~a.ag_automm_enabled)
    \/ (model = "tabpfn" /\ ~a.tabpfn_enabled)

(* the `continue` tests of lines 47-65 *)
Skipped(model, model_params_class, a) ==
    \/ a.problem_type \notin model_params_class.supported_problem_types
    \/ (a.explain_samples /\ ~model_params_class.explain_samples_supported)
    \/ (~a.gpu /\ model_params_class.gpu_required)
    \/ (model = "ag_automm" /\ ~a.ag_automm_enabled)
    \/ (model = "tabpfn" /\ ~a.tabpfn_enabled)

(* the loop of lines 44-65 from entry i on *)
RECURSIVE AvailableModelsLoop(_, _, _)
AvailableModelsLoop(a, i, available_models) ==
    IF i > Len(a.model_params_dict)
    THEN available_models
    ELSE LET entry == a.model_params_dict[i]
         IN  IF Skipped(entry.model, entry.params, a)
             THEN AvailableModelsLoop(a, i + 1, available_models)
             ELSE AvailableModelsLoop(a, i + 1, Append(available_models, entry.model))

get_available_models(a) == AvailableModelsLoop(a, 1, <<>>)

InitModels ==
    /\ NoPredictor
    /\ args \in AvailableModelsArgs
    /\ result = None
    /\ NoParameters

GetAvailableModels ==
    /\ IsNone(result)
    /\ result' = Some(get_available_models(args))
    /\ UNCHANGED <<cfg, causal_model, outcome_featurizer, calls, ret, args,
                   heap, lru_cache, returned>>

NextModels == GetAvailableModels

SpecModels == InitModels /\ [][NextModels]_vars

----------------------------------------------------------------------------
(* AAIAutogluonTask._hyperparameters_to_model_params (tasks/autogluon.py)  *)
(*                                                                         *)
(* hyperparameters is an ordered dict: a sequence of entries without       *)
(* repeated name.  The AutoGluon name of each known model and the options  *)
(* of the hyperparameters space are inputs of the call.                    *)

MaxEntries == 3

KnownModelNames == {"gbm", "xgboost"}
HyperparameterNames == KnownModelNames \cup {"custom", "GBM"}
AutogluonNames == {"GBM", "XGB"}
ParameterValues == {1, 2}

(* model_parameters as given, and as get_autogluon_parameters returns them *)
GivenParams(value) == [autogluon |-> FALSE, model |-> "", value |-> value]
get_autogluon_parameters(model_name, model_parameters) ==
    [autogluon |-> TRUE, model |-> model_name, value |-> model_parameters.value]

Hyperparameters ==
    UNION { { h \in [1..n -> [name : HyperparameterNames,
                              params : { GivenParams(v) : v \in ParameterValues }]] :
                \A i, j \in 1..n : h[i].name = h[j].name => i = j } :
            n \in 0..MaxEntries }

ModelParamsArgs ==
    { [hyperparameters |-> h, options |-> o, autogluon_name |-> ag] :
        h \in Hyperparameters,
        o \in SUBSET KnownModelNames,
        ag \in [KnownModelNames -> AutogluonNames] }

(* mutant: an existing entry is replaced instead of appended to *)
AddModelParams_replace(model_params, model_name_ag, params) ==
    IF model_name_ag \notin DOMAIN model_params
    THEN model_params @@ (model_name_ag :> <<params>>)
    ELSE [model_params EXCEPT ![model_name_ag] = <<params>>]

(* lines 113-116 *)
AddModelParams(model_params, model_name_ag, params) ==
    IF model_name_ag \notin DOMAIN model_params
    THEN model_params @@ (model_name_ag :> <<params>>)
    ELSE [model_params EXCEPT ![model_name_ag] = Append(@, params)]

EmptyDict == [k \in {} |-> <<>>]

(* the loop of lines 94-116 from entry i on; options[model_name] of a name *)
(* the space does not hold is a KeyError                                   *)
RECURSIVE ModelParamsLoop(_, _, _)
ModelParamsLoop(a, i, model_params) ==
    IF i > Len(a.hyperparameters)
    THEN [error |-> "none", model_params |-> model_params]
    ELSE LET model_name == a.hyperparameters[i].name
             model_parameters == a.hyperparameters[i].params
         IN  IF model_name \in KnownModelNames
             THEN IF model_name \notin a.options
                  THEN [error |-> "KeyError", model_params |-> model_params]
                  ELSE ModelParamsLoop(a, i + 1,
                           AddModelParams(model_params, a.autogluon_name[model_name],
                               get_autogluon_parameters(model_name, model_parameters)))
             ELSE ModelParamsLoop(a, i + 1,
                      AddModelParams(model_params, model_name, model_parameters))

_hyperparameters_to_model_params(a) == ModelParamsLoop(a, 1, EmptyDict)

InitModelParams ==
    /\ NoPredictor
    /\ args \in ModelParamsArgs
    /\ result = None
    /\ NoParameters

HyperparametersToModelParams ==
    /\ IsNone(result)
    /\ result' = Some(_hyperparameters_to_model_params(args))
    /\ UNCHANGED <<cfg, causal_model, outcome_featurizer, calls, ret, args,
                   heap, lru_cache, returned>>

NextModelParams == HyperparametersToModelParams

SpecModelParams == InitModelParams /\ [][NextModelParams]_vars

----------------------------------------------------------------------------
(* ConstantValueParams.get_hyperparameters and                             *)
(* MultivariateConstantValueParams.get_hyperparameters                     *)
(* (timeseries/models/params/constant_value.py)                            *)

MaxGets == 7

(* an object of the heap; parameters holds the positions of its children *)
Object(cls, name, display_name, parameters) ==
    [cls |-> cls, name |-> name, display_name |-> display_name,
     parameters |-> parameters]

(* mutant: the copy is the object itself *)
deepcopy_alias(h, id) == [heap |-> h, id |-> id]

(* copy.deepcopy: the children are copied first, then the object, each     *)
(* copy a new object of the heap                                           *)
RECURSIVE deepcopy(_, _), DeepCopyAll(_, _, _)
deepcopy(h, id) ==
    LET children == DeepCopyAll(h, h[id].parameters, 1)
        copy == [h[id] EXCEPT !.parameters = children.ids]
    IN  [heap |-> Append(children.heap, copy), id |-> Len(children.heap) + 1]

DeepCopyAll(h, ids, i) ==
    IF i > Len(ids)
    THEN [heap |-> h, ids |-> <<>>]
    ELSE LET first == deepcopy(h, ids[i])
             rest == DeepCopyAll(first.heap, ids, i + 1)
         IN  [heap |-> rest.heap, ids |-> <<first.id>> \o rest.ids]

(* Both functions return the heap and the cache the call leaves, and the   *)
(* position of the object it returns.                                      *)
ConstantValueParams_get_hyperparameters(h, cache) ==
    IF ~IsNone(cache.uni)
    THEN [heap |-> h, lru_cache |-> cache, id |-> Val(cache.uni)]
    ELSE LET value == Object("FloatRangeSpace", "value", "Value", <<>>)
             space == Object("Parameters", "constant_value",
                             "Constant Value Predictor", <<Len(h) + 1>>)
             h2 == Append(Append(h, value), space)
         IN  [heap |-> h2, lru_cache |-> [cache EXCEPT !.uni = Some(Len(h2))],
              id |-> Len(h2)]

MultivariateConstantValueParams_get_hyperparameters(h, cache) ==
    IF ~IsNone(cache.multi)
    THEN [heap |-> h, lru_cache |-> cache, id |-> Val(cache.multi)]
    ELSE LET uni == ConstantValueParams_get_hyperparameters(h, cache)
             copy == deepcopy(uni.heap, uni.id)
             renamed == [copy.heap EXCEPT
                           ![copy.id].name = "multivariate_constant_value",
                           ![copy.id].display_name =
                               "Multivariate Constant Value Predictor"]
         IN  [heap |-> renamed,
              lru_cache |-> [uni.lru_cache EXCEPT !.multi = Some(copy.id)],
              id |-> copy.id]

InitParams ==
    /\ NoPredictor
    /\ args = None
    /\ result = None
    /\ NoParameters

GetHyperparameters ==
    /\ Len(returned) < MaxGets
    /\ LET r == ConstantValueParams_get_hyperparameters(heap, lru_cache)
       IN  /\ heap' = r.heap
           /\ lru_cache' = r.lru_cache
           /\ returned' = Append(returned, [cls |-> "ConstantValueParams", id |-> r.id])
    /\ UNCHANGED <<cfg, causal_model, outcome_featurizer, calls, ret, args, result>>

GetMultivariateHyperparameters ==
    /\ Len(returned) < MaxGets
    /\ LET r == MultivariateConstantValueParams_get_hyperparameters(heap, lru_cache)
       IN  /\ heap' = r.heap
           /\ lru_cache' = r.lru_cache
           /\ returned' = Append(returned,
                                 [cls |-> "MultivariateConstantValueParams",
                                  id |-> r.id])
    /\ UNCHANGED <<cfg, causal_model, outcome_featurizer, calls, ret, args, result>>

NextParams == GetHyperparameters \/ GetMultivariateHyperparameters

SpecParams == InitParams /\ [][NextParams]_vars

----------------------------------------------------------------------------
(* Properties *)

LastDf == Val(ret.df)
Estimator == Val(causal_model)
Levels(col) == Cardinality(Unique(col.vals))
IsCall(op) == calls' = calls + 1 /\ ret'.op = op
PredictedWhenFitted == ret.op = "predict_effect" /\ ~ret.was_none

(* C1: predict_effect on a predictor whose causal_model is None raises      *)
(* NotFittedError for every dataset and every target_proba, before any      *)
(* column of the dataset is read, and leaves causal_model and               *)
(* outcome_featurizer as they were.                                         *)
C1_NotFitted ==
    [][ (IsNone(causal_model) /\ IsCall("predict_effect"))
          => /\ ret'.error = "NotFittedError"
             /\ ~ret'.df_read
             /\ causal_model' = causal_model
             /\ outcome_featurizer' = outcome_featurizer ]_vars

C1_Witness ==
    /\ ret.op = "predict_effect" /\ ret.was_none
    /\ ret.error = "NotFittedError"
    /\ LastDf.target.dtype = "object" /\ ~IsNone(ret.target_proba)
    /\ IsNone(causal_model) /\ IsNone(outcome_featurizer)

FreshEstimator ==
    /\ ~IsNone(causal_model')
    /\ LET m == Val(causal_model')
       IN  /\ m.id = calls'
           /\ m.model_t.id = calls'
           /\ m.model_y.id = calls'
           /\ (~IsNone(m.model_final) => Val(m.model_final).id = calls')
           /\ (~IsNone(causal_model) => m.id # Val(causal_model).id)

(* C2: the lifecycle is one-way: a causal_model that is not None never      *)
(* becomes None, predict_effect never changes causal_model, and every fit   *)
(* installs an estimator constructed by that call from nuisance models      *)
(* constructed by that call, never the estimator object held before.        *)
C2_Lifecycle ==
    [][ /\ (~IsNone(causal_model) => ~IsNone(causal_model'))
        /\ (IsCall("predict_effect") => causal_model' = causal_model)
        /\ (IsCall("fit") => FreshEstimator) ]_vars

C2_Witness ==
    /\ ret.op = "fit" /\ ~ret.was_none
    /\ calls = 2 /\ Estimator.id = 2 /\ Estimator.model_t.id = 2

(* C3 (as claimed): a fit whose current-intervention column is categorical  *)
(* with more than two distinct levels builds a LinearDML, also when there   *)
(* are no common causes and no cate_alpha.                                  *)
C3_Claim ==
    (/\ ret.op = "fit"
     /\ get_type_special_no_ag(LastDf.cur) = "category"
     /\ Levels(LastDf.cur) > 2)
        => Estimator.kind = "LinearDML"

(* C4: for a treatment column that is numeric or has at most two levels the *)
(* estimator is LinearDML exactly when common_causes is non-empty or        *)
(* cate_alpha is not None; NonParamDML is the only variant holding the      *)
(* final-stage model.                                                       *)
C4_LinearRule ==
    (/\ ret.op = "fit"
     /\ (InNumCols(LastDf.cur) \/ Levels(LastDf.cur) <= 2))
        => /\ (Estimator.kind = "LinearDML")
                <=> (TruthyNonEmpty(cfg.common_causes) \/ ~IsNone(cfg.cate_alpha))
           /\ (Estimator.kind = "NonParamDML") <=> ~IsNone(Estimator.model_final)
           /\ Estimator.kind \in {"LinearDML", "NonParamDML"}

C4_Witness ==
    /\ ret.op = "fit"
    /\ InNumCols(LastDf.cur) /\ Levels(LastDf.cur) > 2
    /\ ~TruthyNonEmpty(cfg.common_causes) /\ IsNone(cfg.cate_alpha)
    /\ Estimator.kind = "NonParamDML" /\ ~IsNone(Estimator.model_final)

(* C5: the estimator's featurizer is a DMLFeaturizer exactly when there are *)
(* common causes (exactly when X is not None) and None otherwise; its cv is *)
(* self.causal_cv, which is 1 when no causal_cv was given.                  *)
C5_FeaturizerAndCv ==
    (ret.op = "fit")
        => /\ (Estimator.featurizer = Some("DMLFeaturizer"))
                <=> TruthyNonEmpty(cfg.common_causes)
           /\ ~TruthyNonEmpty(cfg.common_causes) => IsNone(Estimator.featurizer)
           /\ TruthyNonEmpty(cfg.common_causes) <=> ~IsNone(Val(ret.X))
           /\ Estimator.cv = cfg.causal_cv
           /\ IsNone(cfg.causal_cv_arg) => Estimator.cv = 1
           /\ ~IsNone(cfg.causal_cv_arg) => Estimator.cv = Val(cfg.causal_cv_arg)

C5_Witness ==
    /\ ret.op = "fit"
    /\ cfg.common_causes = Some(<<>>) /\ ~IsNone(cfg.cate_alpha)
    /\ Estimator.kind = "LinearDML" /\ IsNone(Estimator.featurizer)
    /\ IsNone(cfg.causal_cv_arg) /\ Estimator.cv = 1

IntervalColumns ==
    {"intervention_effect_low", "intervention_effect_high",
     "target_intervened_low", "target_intervened_high"}

(* C6 (as claimed): predict_effect on a fitted predictor returns a result   *)
(* table holding the target_intervened column and, when cate_alpha is set,  *)
(* the four interval columns.                                               *)
C6_Claim ==
    PredictedWhenFitted
        => /\ ret.error = "none"
           /\ ~IsNone(ret.out)
           /\ Val(ret.out).value = "result"
           /\ "target_intervened" \in Val(ret.out).columns
           /\ ~IsNone(cfg.cate_alpha) => IntervalColumns \subseteq Val(ret.out).columns

(* C7 (as claimed): the output of predict_effect on a fitted predictor has  *)
(* one entry per row of the input dataset.                                  *)
C7_Claim ==
    PredictedWhenFitted
        => /\ ~IsNone(ret.out)
           /\ Val(ret.out).rows = NumRows(LastDf)

(* C8 (as claimed): for a numeric or integer target the encoded outcome is  *)
(* the raw target column as one column, whatever target_proba is, and       *)
(* predict_effect decodes it by adding the effect, without expit or the     *)
(* inverse one-hot transform.                                               *)
C8_Claim ==
    (PredictedWhenFitted /\ InNumCols(LastDf.target))
        => /\ Val(ret.Y) = [i \in 1..NumRows(LastDf) |-> <<LastDf.target.vals[i]>>]
           /\ ret.decode = "add"

(* C9: for a target that is not numeric every cell of the encoded outcome   *)
(* lies in [LOGIT_MIN_VALUE, LOGIT_MAX_VALUE], with or without target_proba *)
(* and also for probabilities 0 and 1.                                      *)
C9_ClipRange ==
    (ret.op = "_generate_TYX" /\ ~InNumCols(LastDf.target))
        => \A i \in DOMAIN Val(ret.Y) : \A j \in DOMAIN Val(ret.Y)[i] :
              /\ LOGIT_MIN_VALUE <= Val(ret.Y)[i][j]
              /\ Val(ret.Y)[i][j] <= LOGIT_MAX_VALUE

C9_Witness ==
    /\ ret.op = "_generate_TYX" /\ ~InNumCols(LastDf.target)
    /\ ~IsNone(ret.target_proba)
    /\ \E i \in DOMAIN Val(ret.Y) : \E j \in DOMAIN Val(ret.Y)[i] :
          /\ Val(ret.target_proba)[i][j] = ProbOne
          /\ Val(ret.Y)[i][j] = LOGIT_MAX_VALUE
    /\ \E i \in DOMAIN Val(ret.Y) : \E j \in DOMAIN Val(ret.Y)[i] :
          /\ Val(ret.target_proba)[i][j] = 0
          /\ Val(ret.Y)[i][j] = LOGIT_MIN_VALUE

(* the estimator variant the same fit builds when cate_alpha is None *)
KindWithoutCateAlpha ==
    _generate_dml_model([cfg EXCEPT !.cate_alpha = None], Estimator.model_t,
                        Estimator.model_y, Estimator.model_y, Val(ret.X),
                        LastDf.cur, Estimator.id).kind

(* C10 (as claimed): with a categorical target a supplied cate_alpha is     *)
(* ignored: the call does not fail and the estimator variant is the one     *)
(* built with cate_alpha = None.                                            *)
C10_Claim ==
    (/\ ret.op \in {"fit", "predict_effect"}
     /\ ~ret.was_none \/ ret.op = "fit"
     /\ ~InNumCols(LastDf.target)
     /\ ~IsNone(cfg.cate_alpha))
        => /\ ret.error = "none"
           /\ Estimator.kind = KindWithoutCateAlpha

(* C11: the treatment model is a regression model when the current          *)
(* intervention column is numeric or integer and a multiclass model         *)
(* otherwise; its holdout fraction is None for regression and, for          *)
(* multiclass, the number of distinct treatment values over the number of   *)
(* rows, which stays strictly below 1.                                      *)
C11_Claim ==
    ret.op = "fit"
        => LET model_t == Estimator.model_t
           IN  /\ (model_t.problem_type = "regression") <=> InNumCols(LastDf.cur)
               /\ (model_t.problem_type = "multiclass") <=> ~InNumCols(LastDf.cur)
               /\ InNumCols(LastDf.cur) => IsNone(model_t.holdout_frac)
               /\ ~InNumCols(LastDf.cur)
                    => /\ ~IsNone(model_t.holdout_frac)
                       /\ Val(model_t.holdout_frac)
                            = <<Levels(LastDf.cur), NumRows(LastDf)>>
                       /\ Val(model_t.holdout_frac)[1] < Val(model_t.holdout_frac)[2]

(* C12: the outcome model is the single-output wrapper with label 'y'       *)
(* exactly when the encoded outcome has one column, and otherwise the       *)
(* multilabel wrapper with one label and one regression problem per         *)
(* outcome column; in both cases x_w_columns is the list of confounder      *)
(* columns, empty when there are none.                                      *)
C12_OutcomeModel ==
    ret.op = "fit"
        => LET model_y == Estimator.model_y
               Y == Val(ret.Y)
               width == Len(Y[1])
           IN  /\ (model_y.wrapper = "SKLearnTabularWrapper") <=> (width = 1)
               /\ (model_y.wrapper = "SKLearnMultilabelWrapper") <=> (width > 1)
               /\ width = 1 => model_y.labels = <<"y">>
               /\ width > 1 => /\ Len(model_y.labels) = width
                               /\ Len(model_y.problem_types) = width
                               /\ \A j \in 1..width :
                                     /\ model_y.problem_types[j] = "regression"
                                     /\ model_y.labels[j] = j
               /\ model_y.x_w_columns
                    = (IF TruthyNonEmpty(cfg.common_causes)
                       THEN Val(cfg.common_causes) ELSE <<>>)

C12_Witness ==
    /\ ret.op = "fit"
    /\ Len(Val(ret.Y)[1]) > 1
    /\ Estimator.model_y.wrapper = "SKLearnMultilabelWrapper"
    /\ Estimator.model_y.x_w_columns # <<>>

RunDone == ~IsNone(result) /\ "target_notna" \in DOMAIN args
RunPriors == IF IsNone(args.priors) THEN <<>> ELSE Val(args.priors)
MalformedPrior ==
    \E i \in DOMAIN RunPriors :
        RunPriors[i].control # None /\ RunPriors[i].degree # 1

(* C13 as stated: in AAIBayesianRegressionTask.run a prior whose control is *)
(* not None and whose degree is not 1 causes a ValueError raised before any *)
(* fitting work (polynomial expansion, split, tuning, fit), whatever priors *)
(* are listed before it.                                                    *)
C13_Claim ==
    (RunDone /\ MalformedPrior)
        => /\ Val(result).error = "ValueError"
           /\ Val(result).work = <<>>

(* C13, amended: with a prior whose control is not None and whose degree is *)
(* not 1, run does no fitting work at all, whatever priors are listed       *)
(* before it; it raises the ValueError when the data validation reports no  *)
(* critical failure, and returns the FAILURE result of the validation       *)
(* without raising when it reports one.                                     *)
C13_FailFast ==
    (RunDone /\ MalformedPrior)
        => /\ Val(result).work = <<>>
           /\ Val(result).X_train = {}
           /\ ~args.critical => /\ Val(result).status = "raised"
                                /\ Val(result).error = "ValueError"
           /\ args.critical => /\ Val(result).status = "FAILURE"
                               /\ Val(result).error = "none"

C13_Witness ==
    /\ RunDone
    /\ ~args.critical
    /\ Len(RunPriors) = 2
    /\ RunPriors[1].control = None
    /\ RunPriors[2].control # None /\ RunPriors[2].degree = 2
    /\ Val(result).error = "ValueError"
    /\ Val(result).priors_values # {}

RunRows == 0..(Len(args.target_notna) - 1)
MissingTarget == { i \in RunRows : ~args.target_notna[i + 1] }

(* C20: run partitions the rows by the missingness of the target: rows      *)
(* with a target are the train/validation data and are never predicted,     *)
(* rows without one are the prediction set and are never trained on; the    *)
(* two sets are disjoint and cover all rows; 'prediction_table' is present  *)
(* exactly when some row has a missing target and then holds exactly those  *)
(* rows; with validation_split = 0 the test set is the whole training set.  *)
C20_Claim ==
    (RunDone /\ Val(result).status = "SUCCESS")
        => LET r == Val(result)
               table == r.data.prediction_table
           IN  /\ r.X = RunRows \ MissingTarget
               /\ r.X_predict = MissingTarget
               /\ r.X \cap r.X_predict = {}
               /\ r.X \cup r.X_predict = RunRows
               /\ (r.X_train \cup r.X_test) \cap MissingTarget = {}
               /\ (~IsNone(table)) <=> (MissingTarget # {})
               /\ ~IsNone(table)
                    => /\ DOMAIN Val(table) = MissingTarget
                       /\ \A i \in DOMAIN Val(table) :
                             /\ Val(table)[i].row = Some(i)
                             /\ Val(table)[i].predicted
               /\ args.validation_split = 0
                    => (r.X_test = r.X_train /\ r.X_train = r.X)

(* C14: imputation works column by column: a column that had at least one  *)
(* non-missing value has no missing value afterwards, its missing cells     *)
(* filled with the column median when numeric and with the most frequent    *)
(* value when categorical; a column with no missing value is unchanged; an  *)
(* entirely missing column is left entirely missing.                        *)
C14_Claim ==
    (~IsNone(result) /\ "df" \in DOMAIN args)
        => \A j \in DOMAIN args.df :
              LET before == args.df[j].vals
                  after == Val(result).frame[j].vals
                  fill == IF IsNumber(args.df[j])
                          THEN median(before) ELSE most_frequent(before)
              IN  /\ Present(before) # {}
                    => /\ Present(after) = DOMAIN after
                       /\ \A i \in DOMAIN before :
                             after[i] = IF IsNone(before[i]) THEN fill ELSE before[i]
                  /\ Present(before) = DOMAIN before => after = before
                  /\ Present(before) = {} => after = before

Matches(cell) == extract(cell).kind = "float"

(* C15 as stated: transform works per column: when fewer than              *)
(* half of the column's non-null cells match the percent pattern the        *)
(* column is untouched; otherwise (at least half match, exactly half        *)
(* included) every matching cell becomes its float value and every other    *)
(* cell becomes missing; cells that are already null do not count against   *)
(* the column.                                                              *)
C15_Claim ==
    (~IsNone(result) /\ "X" \in DOMAIN args)
        => \A j \in DOMAIN args.X :
              LET before == args.X[j]
                  after == Val(result).X[j]
                  nonnull == { i \in DOMAIN before : before[i].kind # "nan" }
                  matching == { i \in nonnull : Matches(before[i]) }
              IN  IF 2 * Cardinality(matching) < Cardinality(nonnull)
                  THEN after = before
                  ELSE \A i \in DOMAIN before :
                          after[i] = IF i \in matching
                                     THEN extract(before[i]) ELSE NaNCell

(* C15, amended: transform works per column: when the cells matching the    *)
(* percent pattern are at most half of all the cells of the column, null    *)
(* cells included (so also when exactly half match), the column is          *)
(* untouched; when they are more than half, every matching cell becomes its *)
(* float value and every other cell becomes missing.                        *)
C15_Threshold ==
    (~IsNone(result) /\ "X" \in DOMAIN args)
        => \A j \in DOMAIN args.X :
              LET before == args.X[j]
                  after == Val(result).X[j]
                  matching == { i \in DOMAIN before : Matches(before[i]) }
              IN  IF 2 * Cardinality(matching) <= Len(before)
                  THEN after = before
                  ELSE \A i \in DOMAIN before :
                          /\ i \in matching
                               => /\ after[i].kind = "float"
                                  /\ after[i] = extract(before[i])
                          /\ i \notin matching => after[i] = NaNCell

C15_Witness ==
    /\ ~IsNone(result) /\ "X" \in DOMAIN args
    /\ LET before == args.X[1]
           matching == { i \in DOMAIN before : Matches(before[i]) }
       IN  /\ Len(before) = 4
           /\ Cardinality(matching) = 2
           /\ \E i \in DOMAIN before : before[i].kind = "nan"
           /\ Val(result).X[1] = before

Range(seq) == { seq[i] : i \in DOMAIN seq }

(* C16: get_available_models returns, in registry order, exactly the models *)
(* that support the problem type, support explanations when explain_samples *)
(* is set, need no GPU unless one is available, and are not AG_AUTOMM or    *)
(* TabPFN unless the matching flag enables them; so turning gpu,            *)
(* ag_automm_enabled or tabpfn_enabled on, or explain_samples off, never    *)
(* removes a model from the result.                                         *)
C16_AvailableModels ==
    (~IsNone(result) /\ "model_params_dict" \in DOMAIN args)
        => LET registry == args.model_params_dict
               Eligible(e) ==
                   /\ args.problem_type \in e.params.supported_problem_types
                   /\ (~args.explain_samples \/ e.params.explain_samples_supported)
                   /\ (args.gpu \/ ~e.params.gpu_required)
                   /\ (e.model # "ag_automm" \/ args.ag_automm_enabled)
                   /\ (e.model # "tabpfn" \/ args.tabpfn_enabled)
               eligible == SelectSeq(registry, Eligible)
               models == Val(result)
           IN  /\ models = [k \in DOMAIN eligible |-> eligible[k].model]
               /\ Range(models)
                    \subseteq Range(get_available_models([args EXCEPT !.gpu = TRUE]))
               /\ Range(models)
                    \subseteq Range(get_available_models(
                                      [args EXCEPT !.ag_automm_enabled = TRUE]))
               /\ Range(models)
                    \subseteq Range(get_available_models(
                                      [args EXCEPT !.tabpfn_enabled = TRUE]))
               /\ Range(models)
                    \subseteq Range(get_available_models(
                                      [args EXCEPT !.explain_samples = FALSE]))

C16_Witness ==
    /\ ~IsNone(result) /\ "model_params_dict" \in DOMAIN args
    /\ Len(args.model_params_dict) = 2
    /\ args.model_params_dict[1].model = "tabpfn"
    /\ args.model_params_dict[1].params.gpu_required
    /\ ~args.gpu /\ args.tabpfn_enabled
    /\ Val(result) = <<args.model_params_dict[2].model>>
    /\ Len(get_available_models([args EXCEPT !.gpu = TRUE])) = 2

(* C17: the final-stage model has the same output arity as the outcome      *)
(* model built for the same Y: the single-output wrapper when Y has one     *)
(* column, the multilabel wrapper with one regressor per column otherwise.  *)
C17_Claim ==
    (ret.op = "fit" /\ ~IsNone(Estimator.model_final))
        => LET model_final == Val(Estimator.model_final)
               width == Len(Val(ret.Y)[1])
           IN  /\ model_final.wrapper = Estimator.model_y.wrapper
               /\ Len(model_final.labels) = width
               /\ Len(model_final.problem_types) = Len(Estimator.model_y.problem_types)

(* C18: when predict_effect follows a fit on a categorical target, the      *)
(* encoder it decodes with is the fitted one built by that fit, not a       *)
(* fresh, re-fitted or unfitted one; and outcome_featurizer is None         *)
(* whenever the dataset most recently processed has a numeric target.       *)
C18_Claim ==
    /\ (/\ PredictedWhenFitted
        /\ ret.df_read
        /\ ~InNumCols(LastDf.target)
        /\ Estimator.model_y.wrapper = "SKLearnMultilabelWrapper")
          => /\ ~IsNone(outcome_featurizer)
             /\ Val(outcome_featurizer).fitted
             /\ Val(outcome_featurizer).id = Estimator.id
    /\ (ret.df_read /\ InNumCols(LastDf.target)) => IsNone(outcome_featurizer)

(* C19: within one fit call, the discrete_treatment flag given to the       *)
(* causal estimator is True exactly when the treatment model built for the  *)
(* same column is a multiclass model, and False exactly when it is a        *)
(* regression model.                                                        *)
C19_Claim ==
    ret.op = "fit"
        => /\ Estimator.discrete_treatment
                <=> (Estimator.model_t.problem_type = "multiclass")
           /\ (~Estimator.discrete_treatment)
                <=> (Estimator.model_t.problem_type = "regression")

RECURSIVE SumLen(_, _)
SumLen(dict, keys) ==
    IF keys = {} THEN 0
    ELSE LET k == CHOOSE x \in keys : TRUE
         IN  Len(dict[k]) + SumLen(dict, keys \ {k})

(* C21: _hyperparameters_to_model_params loses no configuration: every      *)
(* value of the result is a list, the lists hold as many elements in total  *)
(* as the input has entries, the entries that map to one AutoGluon name are *)
(* in one list in input order, and an entry whose name is not a known Model *)
(* value is passed through under its own name with its parameters           *)
(* unchanged.                                                               *)
C21_NoLoss ==
    (/\ ~IsNone(result)
     /\ "hyperparameters" \in DOMAIN args
     /\ Val(result).error = "none")
        => LET h == args.hyperparameters
               model_params == Val(result).model_params
               Key(e) == IF e.name \in KnownModelNames
                         THEN args.autogluon_name[e.name] ELSE e.name
               Out(e) == IF e.name \in KnownModelNames
                         THEN [autogluon |-> TRUE, model |-> e.name,
                               value |-> e.params.value]
                         ELSE e.params
           IN  /\ DOMAIN model_params = { Key(h[i]) : i \in DOMAIN h }
               /\ \A k \in DOMAIN model_params : Len(model_params[k]) >= 1
               /\ SumLen(model_params, DOMAIN model_params) = Len(h)
               /\ \A k \in DOMAIN model_params :
                     LET SameKey(e) == Key(e) = k
                         entries == SelectSeq(h, SameKey)
                     IN  model_params[k] = [n \in DOMAIN entries |-> Out(entries[n])]
               /\ \A i \in DOMAIN h :
                     h[i].name \notin KnownModelNames
                        => /\ h[i].name \in DOMAIN model_params
                           /\ \E n \in DOMAIN model_params[h[i].name] :
                                 model_params[h[i].name][n] = h[i].params

C21_Witness ==
    /\ ~IsNone(result)
    /\ "hyperparameters" \in DOMAIN args
    /\ Val(result).error = "none"
    /\ Len(args.hyperparameters) = 3
    /\ args.hyperparameters[1].name = "gbm"
    /\ args.hyperparameters[2].name = "custom"
    /\ args.hyperparameters[3].name = "xgboost"
    /\ Len(Val(result).model_params["GBM"]) = 2
    /\ Val(result).model_params["custom"] = <<args.hyperparameters[2].params>>

(* C22: after any sequence of calls of the two get_hyperparameters          *)
(* functions, in any order, every object the univariate function returned   *)
(* still has name Model.constant_value and display name 'Constant Value     *)
(* Predictor' (the multivariate function renames a deep copy, sharing no    *)
(* object with the cached univariate space), every object the multivariate  *)
(* function returned has name Model.multivariate_constant_value, and the    *)
(* calls of one function all return the same object.                        *)
C22_CachedSpaces ==
    /\ \A i \in DOMAIN returned :
          /\ returned[i].cls = "ConstantValueParams"
               => /\ heap[returned[i].id].name = "constant_value"
                  /\ heap[returned[i].id].display_name = "Constant Value Predictor"
          /\ returned[i].cls = "MultivariateConstantValueParams"
               => /\ heap[returned[i].id].name = "multivariate_constant_value"
                  /\ heap[returned[i].id].display_name
                       = "Multivariate Constant Value Predictor"
    /\ \A i, j \in DOMAIN returned :
          /\ returned[i].cls = returned[j].cls => returned[i].id = returned[j].id
          /\ returned[i].cls # returned[j].cls
               => /\ returned[i].id # returned[j].id
                  /\ \A k \in DOMAIN heap[returned[i].id].parameters :
                        heap[returned[i].id].parameters[k]
                            # heap[returned[j].id].parameters[k]

C22_Witness ==
    /\ Len(returned) = 4
    /\ returned[1].cls = "MultivariateConstantValueParams"
    /\ returned[2].cls = "ConstantValueParams"
    /\ returned[3].cls = "MultivariateConstantValueParams"
    /\ returned[4].cls = "ConstantValueParams"
    /\ returned[1].id = returned[3].id
    /\ heap[returned[4].id].name = "constant_value"
    /\ Len(heap) = 4

====
